---- MODULE Spec2Model ----
(***************************************************************************)
(* A model of stl/utils.py of py-metric-temporal-logic: the tree walker,   *)
(* the lens-based focus engine, the parameter binder, the canonicalizer,   *)
(* the STL<->MTL bridge and the context inliner.                           *)
(*                                                                         *)
(* Formulas are records tagged by "type", with the fields of the           *)
(* namedtuples of stl.ast: LinEq(terms, op, const), AtomicPred(id),        *)
(* Neg(arg), F/G(interval, arg), And/Or(args), Until(interval, arg1, arg2) *)
(* and the singletons TOP and BOT.  Python's None is the record None.      *)
(* An exception leaving a function is the record Raise(exc).               *)
(***************************************************************************)
EXTENDS Integers, Sequences, FiniteSets, TLC

VARIABLES pc,        \* position of the running function
          phi,       \* the formula argument (inline_context rebinds it)
          children,  \* walk: the deque of pending nodes
          yielded,   \* walk: the nodes yielded so far, in order
          pred,      \* ast_lens: the set of node types type_pred accepts
          res,       \* the value returned (or the exception raised)
          ap_map,    \* to_mtl / from_mtl: dict AtomicPred -> LinEq
          context,   \* inline_context: dict AtomicPred -> formula
          phi2,      \* inline_context: the formula of the previous round
          val        \* set_params: dict parameter (or its name) -> number

vars == <<pc, phi, children, yielded, pred, res, ap_map, context, phi2, val>>

(***************************************************************************)
(* Bounds of the model.                                                    *)
(***************************************************************************)
\* Largest number of nodes of an input formula.
MaxSize == 4

(***************************************************************************)
(* The AST (stl.ast), as the spec's data model describes it.               *)
(***************************************************************************)
None == [type |-> "None"]
Raise(exc) == [type |-> "Raise", exc |-> exc]
IsRaise(x) == x.type = "Raise"

TOP == [type |-> "TOP"]
BOT == [type |-> "BOT"]
AtomicPred(id) == [type |-> "AtomicPred", id |-> id]
LinEq(terms, op, const) == [type |-> "LinEq", terms |-> terms, op |-> op, const |-> const]
Neg(arg) == [type |-> "Neg", arg |-> arg]
Interval(lo, hi) == <<lo, hi>>
ModalOp(type, interval, arg) == [type |-> type, interval |-> interval, arg |-> arg]
F(interval, arg) == ModalOp("F", interval, arg)
G(interval, arg) == ModalOp("G", interval, arg)
NaryOpSTL(type, args) == [type |-> type, args |-> args]
And(args) == NaryOpSTL("And", args)
Or(args) == NaryOpSTL("Or", args)
Until(interval, arg1, arg2) ==
    [type |-> "Until", interval |-> interval, arg1 |-> arg1, arg2 |-> arg2]

\* A number, a float made by float(), or a free sympy.Symbol.
Num(n) == [k |-> "num", num |-> n]
Float(n) == [k |-> "float", num |-> n]
Sym(s) == [k |-> "sym", sym |-> s]

\* node.children(): the formula-valued children in declared order.
Children(node) ==
    CASE node.type \in {"And", "Or"} -> node.args
      [] node.type \in {"F", "G", "Neg"} -> <<node.arg>>
      [] node.type = "Until" -> <<node.arg1, node.arg2>>
      [] OTHER -> <<>>

(***************************************************************************)
(* Input formulas: every tree of exactly n nodes of a grammar g, a record  *)
(* of the leaves, the intervals and the operator types to build from.      *)
(***************************************************************************)
RECURSIVE BySize(_, _)
RECURSIVE SeqsBySize(_, _, _)
BySize(g, n) ==
    IF n = 1 THEN g.leaves
    ELSE {Neg(a) : a \in IF "Neg" \in g.ops THEN BySize(g, n - 1) ELSE {}}
         \cup {ModalOp(t, i, a) : t \in g.ops \cap {"F", "G"}, i \in g.ivs,
                                  a \in BySize(g, n - 1)}
         \cup {NaryOpSTL(t, as) : t \in g.ops \cap {"And", "Or"},
                                  as \in UNION {SeqsBySize(g, k, n - 1) : k \in g.arities}}
         \cup {Until(i, s[1], s[2]) : i \in g.ivs,
                   s \in IF "Until" \in g.ops THEN SeqsBySize(g, 2, n - 1) ELSE {}}

SeqsBySize(g, k, n) ==
    IF k = 0 THEN (IF n = 0 THEN {<<>>} ELSE {})
    ELSE UNION {{<<a>> \o s : a \in BySize(g, m), s \in SeqsBySize(g, k - 1, n - m)} :
                m \in 1..(n - (k - 1))}

UpToSize(g, n) == UNION {BySize(g, m) : m \in 1..n}

Lx == LinEq("x", ">=", Num(0))
Ly == LinEq("y", "<", Num(1))
I01 == Interval(Num(0), Num(1))
I12 == Interval(Num(1), Num(2))

Null == <<>>

(***************************************************************************)
(* walk (utils.py 16-23)                                                   *)
(***************************************************************************)
\* deque.pop: the rightmost element and the rest.
PopLeft(dq) == [node |-> dq[1], rest |-> SubSeq(dq, 2, Len(dq))]
Pop(dq) == [node |-> dq[Len(dq)], rest |-> SubSeq(dq, 1, Len(dq) - 1)]

WalkGrammar ==
    [leaves |-> {Lx, Ly, AtomicPred("p"), TOP}, ivs |-> {I01},
     ops |-> {"Neg", "F", "G", "And", "Or", "Until"}, arities |-> {2, 3}]
WalkFormulas == UpToSize(WalkGrammar, MaxSize)

WalkInit ==
    /\ phi \in WalkFormulas
    /\ pc = "walk"
    /\ children = <<phi>>
    /\ yielded = <<>>
    /\ pred = Null /\ res = Null /\ ap_map = Null
    /\ context = Null /\ phi2 = Null /\ val = Null

\* One iteration of the while loop: pop, yield, extend.
WalkStep ==
    /\ pc = "walk"
    /\ Len(children) > 0
    /\ LET p == Pop(children) IN
         /\ yielded' = Append(yielded, p.node)
         /\ children' = p.rest \o Children(p.node)
    /\ UNCHANGED <<pc, phi, pred, res, ap_map, context, phi2, val>>

\* The loop condition fails: the generator is exhausted.
WalkReturn ==
    /\ pc = "walk"
    /\ Len(children) = 0
    /\ pc' = "done"
    /\ UNCHANGED <<phi, children, yielded, pred, res, ap_map, context, phi2, val>>

WalkNext == WalkStep \/ WalkReturn
WalkSpec == WalkInit /\ [][WalkNext]_vars

\* Structural measures the claims compare the walk against.
RECURSIVE NodeCount(_)
RECURSIVE SumCounts(_)
NodeCount(node) == 1 + SumCounts(Children(node))
SumCounts(s) == IF s = <<>> THEN 0 ELSE NodeCount(Head(s)) + SumCounts(Tail(s))

Reverse(s) == [i \in 1..Len(s) |-> s[Len(s) + 1 - i]]

RECURSIVE PreOrder(_)
RECURSIVE PreOrderAll(_)
PreOrder(node) == <<node>> \o PreOrderAll(Children(node))
PreOrderAll(s) == IF s = <<>> THEN <<>> ELSE PreOrder(Head(s)) \o PreOrderAll(Tail(s))

RECURSIVE RevPreOrder(_)
RECURSIVE RevPreOrderAll(_)
RevPreOrder(node) == <<node>> \o RevPreOrderAll(Reverse(Children(node)))
RevPreOrderAll(s) ==
    IF s = <<>> THEN <<>> ELSE RevPreOrder(Head(s)) \o RevPreOrderAll(Tail(s))

\* C10 as stated: walk yields the root first and every node once, depth-first,
\* the children of each node in declared order (Until: arg1 then arg2).
C10_WalkDeclaredOrder ==
    pc = "done" => yielded = PreOrder(phi)

\* C10 amended: at every step the nodes yielded plus the nodes still below the
\* deque are exactly the nodes of the formula (so the walk ends after NodeCount
\* steps), and the finished walk is the depth-first pre-order that takes the
\* children of each node in REVERSE declared order (Until: arg2 then arg1).
C10_WalkReverseOrder ==
    /\ Len(yielded) + SumCounts(children) = NodeCount(phi)
    /\ pc = "done" => /\ yielded = RevPreOrder(phi)
                      /\ yielded[1] = phi
                      /\ Len(yielded) = NodeCount(phi)

C10_Witness ==
    /\ pc = "done"
    /\ phi.type = "Until"
    /\ phi.arg1.type = "Neg"
    /\ phi.arg1 # phi.arg2

(***************************************************************************)
(* Lenses (the lenses library as utils.py uses it).  A lens is the path it *)
(* follows from the root: a sequence of attribute and item steps.          *)
(***************************************************************************)
Attr(a) == [k |-> "attr", a |-> a]
Item(j) == [k |-> "item", j |-> j]

\* focus.get(state=phi)
RECURSIVE LensGet(_, _)
LensGet(state, l) ==
    IF l = <<>> THEN state
    ELSE LET s == Head(l) IN
         LensGet(IF s.k = "attr" THEN state[s.a] ELSE state[s.j + 1], Tail(l))

\* focus.set(value)(state): a copy of state with the focus replaced.
RECURSIVE LensSet(_, _, _)
LensSet(state, l, v) ==
    IF l = <<>> THEN v
    ELSE LET s == Head(l) IN
         IF s.k = "attr"
         THEN [state EXCEPT ![s.a] = LensSet(state[s.a], Tail(l), v)]
         ELSE [state EXCEPT ![s.j + 1] = LensSet(state[s.j + 1], Tail(l), v)]

\* _child_lens (utils.py 34-45)
ChildLensSwapped(psi, focus) ==
    CASE psi = None -> <<>>
      [] psi = TOP \/ psi = BOT -> <<>>
      [] psi.type = "Until" ->
            <<focus \o <<Attr("arg2")>>, focus \o <<Attr("arg1")>> >>
      [] psi.type \in {"And", "Or"} ->
            [j \in 1..Len(psi.args) |-> focus \o <<Attr("args"), Item(j - 1)>>]
      [] OTHER -> <<focus \o <<Attr("arg")>> >>
ChildLens(psi, focus) ==
    CASE psi = None -> <<>>
      [] psi = TOP \/ psi = BOT -> <<>>
      [] psi.type = "Until" ->
            <<focus \o <<Attr("arg1")>>, focus \o <<Attr("arg2")>> >>
      [] psi.type \in {"And", "Or"} ->
            [j \in 1..Len(psi.args) |-> focus \o <<Attr("args"), Item(j - 1)>>]
      [] OTHER -> <<focus \o <<Attr("arg")>> >>

\* type_pred (utils.py 29-31): type(x) in ast_types
TypePred(ast_types, x) == x.type \in ast_types

\* The two focus_lens functions of the module: the default of ast_lens
\* (utils.py 50-51) and the one of param_lens (utils.py 80-81).
FocusLens(focus_lens, leaf) ==
    IF focus_lens = "id" THEN << <<>> >>
    ELSE IF leaf.type = "LinEq" THEN << <<Attr("const")>> >>
    ELSE << <<Attr("interval"), Item(0)>>, <<Attr("interval"), Item(1)>> >>

\* _ast_lens (utils.py 57-67) returns a nested list: an entry is a lens or
\* the list returned for a child.
LensEntry(l) == [leaf |-> TRUE, lens |-> l]
ListEntry(items) == [leaf |-> FALSE, items |-> items]

RECURSIVE AstLensRec(_, _, _, _)
AstLensRec(root, tp, focus, focus_lens) ==
    LET psi == LensGet(root, focus)
        fl == FocusLens(focus_lens, psi)
        ret_lens == IF TypePred(tp, psi)
                    THEN [i \in 1..Len(fl) |-> LensEntry(focus \o fl[i])]
                    ELSE <<>>
    IN IF psi.type \in {"LinEq", "AtomicPred"} THEN ret_lens
       ELSE LET child_lenses == ChildLens(psi, focus) IN
            ret_lens \o [i \in 1..Len(child_lenses) |->
                           ListEntry(AstLensRec(root, tp, child_lenses[i], focus_lens))]

\* funcy.flatten (utils.py 52)
RECURSIVE Flatten(_)
Flatten(items) ==
    IF items = <<>> THEN <<>>
    ELSE LET e == Head(items) IN
         (IF e.leaf THEN <<e.lens>> ELSE Flatten(e.items)) \o Flatten(Tail(items))

\* ast_lens (utils.py 48-54): the lenses of lens().tuple_(*tls).each_()
AstLens(root, tp, focus_lens) == Flatten(AstLensRec(root, tp, <<>>, focus_lens))

\* get_all() of the bound tuple lens: the view of each lens, in order.
GetAll(root, tls) == [i \in 1..Len(tls) |-> LensGet(root, tls[i])]

\* The setter of the tuple lens: the lenses are set one after the other, each
\* on the state the previous set returned.
RECURSIVE SetAll(_, _, _)
SetAll(state, tls, vals) ==
    IF tls = <<>> THEN state
    ELSE SetAll(LensSet(state, Head(tls), Head(vals)), Tail(tls), Tail(vals))

\* dict.get(key, default)
DictGet(d, key, default) == IF key \in DOMAIN d THEN d[key] ELSE default

LensGrammar ==
    [leaves |-> {Lx, Ly, AtomicPred("p"), TOP}, ivs |-> {I01},
     ops |-> {"Neg", "F", "G", "And", "Or", "Until"}, arities |-> {2, 3}]
LensFormulas == UpToSize(LensGrammar, MaxSize)
\* lineq_lens, AP_lens, and_or_lens, the predicate of param_lens, and two more.
Preds == {{"LinEq"}, {"AtomicPred"}, {"And", "Or"}, {"LinEq", "F", "G"},
          {"Neg", "Until", "TOP"},
          {"LinEq", "AtomicPred", "Neg", "F", "G", "And", "Or", "Until", "TOP"}}

LensInit ==
    /\ phi \in LensFormulas
    /\ pred \in Preds
    /\ pc = "ast_lens"
    /\ children = Null /\ yielded = Null /\ res = Null /\ ap_map = Null
    /\ context = Null /\ phi2 = Null /\ val = Null

\* ast_lens(phi, pred=pred).get_all()
AstLensGetAll ==
    /\ pc = "ast_lens"
    /\ res' = GetAll(phi, AstLens(phi, pred, "id"))
    /\ pc' = "done"
    /\ UNCHANGED <<phi, children, yielded, pred, ap_map, context, phi2, val>>

LensNext == AstLensGetAll
LensSpec == LensInit /\ [][LensNext]_vars

\* C9: get_all on the focus of ast_lens with the default sub-location function
\* is the sequence of the nodes that satisfy the predicate, one entry per tree
\* position, in pre-order, left to right.
C9_GetAllPreOrder ==
    pc = "done" =>
        LET Sat(n) == n.type \in pred IN res = SelectSeq(PreOrder(phi), Sat)

C9_Witness ==
    /\ pc = "done"
    /\ phi.type = "Until"
    /\ Len(res) >= 3
    /\ res[2] # res[3]

(***************************************************************************)
(* to_mtl (utils.py 115-120) and from_mtl (utils.py 123-125)               *)
(***************************************************************************)
\* to_ap (utils.py 117)
ToAp(i) == AtomicPred("AP" \o ToString(i))

\* ap_map (utils.py 118): {to_ap(i): leq for i, leq in enumerate(get_all)}
ApMapOf(all) ==
    [a \in {ToAp(i - 1) : i \in 1..Len(all)} |->
        all[CHOOSE i \in 1..Len(all) : ToAp(i - 1) = a]]

\* lineq_map (utils.py 119): the inverted dict; of two items with the same
\* value the later one (the larger index) overwrites the earlier.
LineqMapOf(all) ==
    [l \in {all[i] : i \in 1..Len(all)} |->
        ToAp((CHOOSE i \in 1..Len(all) :
                 /\ all[i] = l
                 /\ \A j \in 1..Len(all) : all[j] = l => j <= i) - 1)]

\* to_mtl: the pair (focus.modify(lineq_map.get), ap_map)
ToMtl(f) ==
    LET focus == AstLens(f, {"LinEq"}, "id")
        all == GetAll(f, focus)
        lineq_map == LineqMapOf(all)
    IN [mtl |-> SetAll(f, focus, [i \in 1..Len(all) |-> DictGet(lineq_map, all[i], None)]),
        ap_map |-> ApMapOf(all)]

\* from_mtl: focus.modify(ap_map.get) over the AtomicPred focus
FromMtl(f, m) ==
    LET focus == AstLens(f, {"AtomicPred"}, "id")
        all == GetAll(f, focus)
    IN SetAll(f, focus, [i \in 1..Len(all) |-> DictGet(m, all[i], None)])

MtlGrammar ==
    [leaves |-> {Lx, Ly, AtomicPred("p"), AtomicPred("AP0"), TOP}, ivs |-> {I01},
     ops |-> {"Neg", "G", "And", "Until"}, arities |-> {2}]
MtlFormulas == UpToSize(MtlGrammar, MaxSize)

\* The ap_maps a caller hands to from_mtl directly.
ApKeys == {AtomicPred("p"), AtomicPred("AP0")}
ApMaps == UNION {[D -> {Lx, Ly}] : D \in SUBSET ApKeys}

MtlInit ==
    /\ phi \in MtlFormulas
    /\ pc = "start"
    /\ res = Null /\ ap_map = Null
    /\ children = Null /\ yielded = Null /\ pred = Null
    /\ context = Null /\ phi2 = Null /\ val = Null

\* mtl, ap_map = to_mtl(phi)
CallToMtl ==
    /\ pc = "start"
    /\ LET r == ToMtl(phi) IN res' = r.mtl /\ ap_map' = r.ap_map
    /\ pc' = "to_mtl"
    /\ UNCHANGED <<phi, children, yielded, pred, context, phi2, val>>

\* from_mtl(mtl, ap_map) on the pair to_mtl returned
CallFromMtlBack ==
    /\ pc = "to_mtl"
    /\ res' = FromMtl(res, ap_map)
    /\ pc' = "round_trip"
    /\ UNCHANGED <<phi, children, yielded, pred, ap_map, context, phi2, val>>

\* from_mtl(phi, m) with an ap_map of the caller
CallFromMtl ==
    /\ pc = "start"
    /\ \E m \in ApMaps :
         /\ ap_map' = m
         /\ res' = FromMtl(phi, m)
    /\ pc' = "from_mtl"
    /\ UNCHANGED <<phi, children, yielded, pred, context, phi2, val>>

MtlNext == CallToMtl \/ CallFromMtlBack \/ CallFromMtl
MtlSpec == MtlInit /\ [][MtlNext]_vars

\* The formula with every AtomicPred that is a key of m replaced by m's value
\* and every other node as it was.
RECURSIVE Substituted(_, _)
Substituted(node, m) ==
    CASE node.type = "AtomicPred" -> DictGet(m, node, node)
      [] node.type = "Neg" -> Neg(Substituted(node.arg, m))
      [] node.type \in {"F", "G"} ->
            ModalOp(node.type, node.interval, Substituted(node.arg, m))
      [] node.type \in {"And", "Or"} ->
            NaryOpSTL(node.type, [i \in 1..Len(node.args) |-> Substituted(node.args[i], m)])
      [] node.type = "Until" ->
            Until(node.interval, Substituted(node.arg1, m), Substituted(node.arg2, m))
      [] OTHER -> node

\* C1: from_mtl applied to the pair returned by to_mtl(phi) is phi.
C1_RoundTrip ==
    pc = "round_trip" => res = phi

\* C2: from_mtl replaces each AtomicPred that is a key of ap_map by the mapped
\* LinEq and leaves every AtomicPred that is not a key in place.
C2_AbsentLeftUnchanged ==
    pc = "from_mtl" => res = Substituted(phi, ap_map)

\* C3: the ap_map returned by to_mtl maps no two names to the same LinEq.
C3_ApMapInjective ==
    pc = "to_mtl" =>
        \A a, b \in DOMAIN ap_map : ap_map[a] = ap_map[b] => a = b

(***************************************************************************)
(* f_neg_or_canonical_form (utils.py 92-112)                               *)
(***************************************************************************)
\* utils.py 97-98: the children of an And or a G are wrapped in Neg.
PreNegateAndOnly(type, cs) ==
    IF type \in {"And"} THEN [i \in 1..Len(cs) |-> Neg(cs[i])] ELSE cs
PreNegate(type, cs) ==
    IF type \in {"And", "G"} THEN [i \in 1..Len(cs) |-> Neg(cs[i])] ELSE cs

RECURSIVE FNegOrCanonicalForm(_)
FNegOrCanonicalForm(f) ==
    IF f.type = "LinEq" THEN f
    ELSE LET subs == Children(f)
             rec == [i \in 1..Len(subs) |-> FNegOrCanonicalForm(subs[i])]
             failed == {i \in 1..Len(rec) : IsRaise(rec[i])}
         IN IF failed # {}
            \* the exception of the first failing child leaves the comprehension
            THEN rec[CHOOSE i \in failed : \A j \in failed : i <= j]
            ELSE LET cs == PreNegate(f.type, rec) IN
                 CASE f.type = "Or" -> Or(cs)
                   [] f.type = "And" -> Neg(Or(cs))
                   [] f.type = "Neg" -> Neg(cs[1])
                   [] f.type = "F" -> F(f.interval, cs[1])
                   [] f.type = "G" -> Neg(F(f.interval, cs[1]))
                   [] OTHER -> Raise("NotImplementedError")

CanonGrammar ==
    [leaves |-> {Lx, Ly, AtomicPred("p"), TOP}, ivs |-> {I01, I12},
     ops |-> {"Neg", "F", "G", "And", "Or", "Until"}, arities |-> {2}]
CanonFormulas == UpToSize(CanonGrammar, MaxSize)

CanonInit ==
    /\ phi \in CanonFormulas
    /\ pc = "start"
    /\ res = Null /\ ap_map = Null
    /\ children = Null /\ yielded = Null /\ pred = Null
    /\ context = Null /\ phi2 = Null /\ val = Null

\* f_neg_or_canonical_form(phi)
CallCanonicalForm ==
    /\ pc = "start"
    /\ res' = FNegOrCanonicalForm(phi)
    /\ pc' = "done"
    /\ UNCHANGED <<phi, children, yielded, pred, ap_map, context, phi2, val>>

CanonNext == CallCanonicalForm
CanonSpec == CanonInit /\ [][CanonNext]_vars

NodeTypes(f) == {PreOrder(f)[i].type : i \in 1..Len(PreOrder(f))}
IsLeafType(t) == t \in {"LinEq", "AtomicPred", "TOP", "BOT"}
Leaves(f) == LET L(n) == IsLeafType(n.type) IN SelectSeq(PreOrder(f), L)

\* C4: on a formula of And, Or, Neg, F, G over LinEq, AtomicPred, TOP and BOT
\* the canonicalizer returns, without raising, a formula of Neg, Or, F and the
\* same atomic leaves.
C4_CanonicalBasis ==
    (pc = "done" /\ NodeTypes(phi) \subseteq
                      {"And", "Or", "Neg", "F", "G", "LinEq", "AtomicPred", "TOP", "BOT"})
    => /\ ~IsRaise(res)
       /\ NodeTypes(res) \subseteq {"Neg", "Or", "F", "LinEq", "AtomicPred", "TOP", "BOT"}
       /\ Leaves(res) = Leaves(phi)

\* The boolean semantics over the discrete times 0..Horizon: sigma gives the
\* truth of each atom at each time; F and G range over the times of the
\* interval that lie on the trace.
Horizon == 2
Times == 0..Horizon
Window(interval, t) == {u \in Times : t + interval[1].num <= u /\ u <= t + interval[2].num}

RECURSIVE Eval(_, _, _)
Eval(f, sigma, t) ==
    CASE f.type = "TOP" -> TRUE
      [] f.type = "BOT" -> FALSE
      [] f.type \in {"LinEq", "AtomicPred"} -> sigma[f][t]
      [] f.type = "Neg" -> ~Eval(f.arg, sigma, t)
      [] f.type = "And" -> \A i \in 1..Len(f.args) : Eval(f.args[i], sigma, t)
      [] f.type = "Or" -> \E i \in 1..Len(f.args) : Eval(f.args[i], sigma, t)
      [] f.type = "G" -> \A u \in Window(f.interval, t) : Eval(f.arg, sigma, u)
      [] f.type = "F" -> \E u \in Window(f.interval, t) : Eval(f.arg, sigma, u)
      [] f.type = "Until" ->
            \E u \in Window(f.interval, t) :
                /\ Eval(f.arg2, sigma, u)
                /\ \A w \in t..(u - 1) : Eval(f.arg1, sigma, w)

AtomsOf(f) == {n \in {PreOrder(f)[i] : i \in 1..Len(PreOrder(f))} :
                  n.type \in {"LinEq", "AtomicPred"}}

\* C5: a formula the canonicalizer returns evaluates, under every truth
\* assignment to the atoms over time and at every time, to the boolean the
\* input evaluates to.
C5_CanonicalEquivalent ==
    (pc = "done" /\ ~IsRaise(res)) =>
        \A sigma \in [AtomsOf(phi) -> [Times -> BOOLEAN]] :
            \A t \in Times : Eval(res, sigma, t) = Eval(phi, sigma, t)

C5_Witness ==
    /\ pc = "done"
    /\ ~IsRaise(res)
    /\ phi.type = "G"
    /\ phi.arg.type = "And"
    /\ res = Neg(F(phi.interval, Neg(Neg(Or(<<Neg(Lx), Neg(Ly)>>)))))

(***************************************************************************)
(* param_lens (utils.py 78-84) and set_params (utils.py 87-89)             *)
(***************************************************************************)
\* is_sym (utils.py 79)
IsSym(x) == x.k = "sym"

\* A dict key that is the string str(x) of a symbol.
StrKey(s) == [k |-> "str", str |-> s]
Str(x) == StrKey(x.sym)

\* float(x) succeeds on a number and raises TypeError on a free sympy.Symbol.
CanFloat(x) == x.k \in {"num", "float"}

\* The value set_params hands to float (utils.py 89).
Lookup(v, x) == DictGet(v, x, DictGet(v, Str(x), x))

\* param_lens: the lenses of the parameter focus, before filter_(is_sym).
ParamLens(f) == AstLens(f, {"LinEq", "F", "G"}, "param")

\* set_params(phi, val): modify over the lenses whose view is a symbol; the
\* TypeError of float leaves set_params.
SetParams(f, v) ==
    LET tls == ParamLens(f)
        all == GetAll(f, tls)
        failed == {i \in 1..Len(all) : IsSym(all[i]) /\ ~CanFloat(Lookup(v, all[i]))}
    IN IF failed # {}
       THEN Raise("TypeError")
       ELSE SetAll(f, tls, [i \in 1..Len(all) |->
                              IF IsSym(all[i]) THEN Float(Lookup(v, all[i]).num)
                              ELSE all[i]])

La == LinEq("x", ">=", Sym("a"))
Iab == Interval(Sym("a"), Sym("b"))
I0b == Interval(Num(0), Sym("b"))
ParamGrammar ==
    [leaves |-> {Lx, La, AtomicPred("p")}, ivs |-> {I01, I0b, Iab},
     ops |-> {"Neg", "F", "G", "And"}, arities |-> {2}]
ParamFormulas == UpToSize(ParamGrammar, MaxSize - 1)

\* Binding sources: a parameter is bound by itself or by its name or not at all.
ValKeys == {Sym("a"), StrKey("a"), Sym("b"), StrKey("b")}
Vals == UNION {[D -> {Num(3), Num(7)}] : D \in SUBSET ValKeys}

ParamInit ==
    /\ phi \in ParamFormulas
    /\ val \in Vals
    /\ pc = "start"
    /\ res = Null /\ ap_map = Null
    /\ children = Null /\ yielded = Null /\ pred = Null
    /\ context = Null /\ phi2 = Null

\* set_params(phi, val)
CallSetParams ==
    /\ pc = "start"
    /\ res' = SetParams(phi, val)
    /\ pc' = "done"
    /\ UNCHANGED <<phi, children, yielded, pred, ap_map, context, phi2, val>>

ParamNext == CallSetParams
ParamSpec == ParamInit /\ [][ParamNext]_vars

\* A parameter found in v (by itself, else by its name) becomes its numeric
\* value; any other value stays as it is.
BoundValue(x, v) ==
    IF ~IsSym(x) THEN x
    ELSE IF x \in DOMAIN v THEN Float(v[x].num)
    ELSE IF Str(x) \in DOMAIN v THEN Float(v[Str(x)].num)
    ELSE x

RECURSIVE Bound(_, _)
Bound(node, v) ==
    CASE node.type = "LinEq" -> [node EXCEPT !.const = BoundValue(node.const, v)]
      [] node.type = "Neg" -> Neg(Bound(node.arg, v))
      [] node.type \in {"F", "G"} ->
            ModalOp(node.type,
                    Interval(BoundValue(node.interval[1], v), BoundValue(node.interval[2], v)),
                    Bound(node.arg, v))
      [] node.type \in {"And", "Or"} ->
            NaryOpSTL(node.type, [i \in 1..Len(node.args) |-> Bound(node.args[i], v)])
      [] OTHER -> node

\* C8: set_params rewrites each free parameter found in val to its numeric
\* value and leaves every free parameter absent from val as the symbol it
\* was, without raising.
C8_PartialBinding ==
    pc = "done" => /\ ~IsRaise(res)
                   /\ res = Bound(phi, val)

(***************************************************************************)
(* inline_context (utils.py 134-140)                                       *)
(***************************************************************************)
\* update (utils.py 136): context.get(ap, ap)
Update(ctx, ap) == DictGet(ctx, ap, ap)

\* AP_lens(phi).modify(update) (utils.py 138): one round of substitution.
Round(f, ctx) ==
    LET focus == AstLens(f, {"AtomicPred"}, "id")
        all == GetAll(f, focus)
    IN SetAll(f, focus, [i \in 1..Len(all) |-> Update(ctx, all[i])])

\* The loop condition (utils.py 137): phi2 != phi
LoopCondFirstRoundOnly(a, b) == a = None
LoopCond(a, b) == a # b

InlineGrammar ==
    [leaves |-> {AtomicPred("p"), AtomicPred("q"), Lx}, ivs |-> {I01},
     ops |-> {"Neg", "Or"}, arities |-> {2}]
InlineFormulas == UpToSize(InlineGrammar, MaxSize)

\* Contexts: each of p and q undefined or defined by one of these formulas.
CtxKeys == {AtomicPred("p"), AtomicPred("q")}
Replacements ==
    {AtomicPred("p"), AtomicPred("q"), Lx, Neg(AtomicPred("p")), Neg(AtomicPred("q")),
     Or(<<AtomicPred("q"), Lx>>)}
Contexts == UNION {[D -> Replacements] : D \in SUBSET CtxKeys}

\* The model follows a run while the formula has at most MaxInline nodes, more
\* than an acyclic context can produce from an input formula (a leaf grows to
\* at most three nodes); a loop that goes on with a larger formula is at
\* "beyond".
MaxInline == 3 * MaxSize

InlineInit ==
    /\ phi \in InlineFormulas
    /\ context \in Contexts
    /\ phi2 = None
    /\ pc = "while"
    /\ res = Null /\ ap_map = Null
    /\ children = Null /\ yielded = Null /\ pred = Null /\ val = Null

\* One iteration of the while loop: phi2, phi = phi, AP_lens(phi).modify(update)
InlineRound ==
    /\ pc = "while"
    /\ LoopCond(phi2, phi)
    /\ NodeCount(Round(phi, context)) <= MaxInline
    /\ phi2' = phi
    /\ phi' = Round(phi, context)
    /\ UNCHANGED <<pc, children, yielded, pred, res, ap_map, context, val>>

\* An iteration whose formula outgrows the model: the loop is still running.
InlineBeyond ==
    /\ pc = "while"
    /\ LoopCond(phi2, phi)
    /\ NodeCount(Round(phi, context)) > MaxInline
    /\ pc' = "beyond"
    /\ UNCHANGED <<phi, children, yielded, pred, res, ap_map, context, phi2, val>>

\* The loop condition fails; what is left is the print-and-reparse of phi.
InlineExit ==
    /\ pc = "while"
    /\ ~LoopCond(phi2, phi)
    /\ pc' = "parse"
    /\ UNCHANGED <<phi, children, yielded, pred, res, ap_map, context, phi2, val>>

InlineNext == InlineRound \/ InlineBeyond \/ InlineExit

\* The interpreter keeps running the loop.  At "while" exactly one of the three
\* actions is enabled, and each changes pc or phi2, so weak fairness of
\* InlineNext is weak fairness of this action, whose enabling condition is
\* pc = "while".
LoopProgress ==
    /\ pc = "while"
    /\ \/ pc' \in {"parse", "beyond"} /\ phi2' = phi2
       \/ pc' = pc /\ phi2' = phi
InlineSpec == InlineInit /\ [][InlineNext]_vars /\ WF_<<pc, phi2>>(LoopProgress)

\* The keys of ctx that the definition of key a mentions, and the keys
\* reachable from a set of keys in at most n more steps.
Deps(ctx, a) == AtomsOf(ctx[a]) \cap DOMAIN ctx
RECURSIVE ReachN(_, _, _)
ReachN(ctx, S, n) ==
    IF n = 0 THEN S ELSE ReachN(ctx, S \cup UNION {Deps(ctx, a) : a \in S}, n - 1)
IsCyclic(ctx) ==
    \E a \in DOMAIN ctx : a \in ReachN(ctx, Deps(ctx, a), Cardinality(DOMAIN ctx))

\* C6: called with a context whose definitions are cyclic, inline_context
\* never loops forever: its loop ends, in the non-convergence error the claim
\* asks for (a position the code does not have) or by returning.  A run that
\* outgrows the model is not held against the claim.
C6_CyclicContextStops ==
    IsCyclic(context) => <>(pc \in {"error", "parse", "beyond"})

\* C7: with a context without cyclic definitions the loop eventually stops,
\* on a formula that one more round leaves as it is and that holds no
\* AtomicPred that is a key of context.
C7_AcyclicConverges ==
    ~IsCyclic(context) =>
        <>(/\ pc = "parse"
           /\ Round(phi, context) = phi
           /\ AtomsOf(phi) \cap DOMAIN context = {})

C7_Witness ==
    /\ pc = "parse"
    /\ ~IsCyclic(context)
    /\ \E a \in DOMAIN context : Deps(context, a) # {}
    /\ NodeCount(phi) > MaxSize + 2

====
